---- MODULE Spec2Model ----
(***************************************************************************)
(* A model of package lazyerrors (github.com/AlekSi/lazyerrors): error     *)
(* values wrapped with one program counter, rendered by Error() under a    *)
(* process-wide formatting policy.                                         *)
(*                                                                         *)
(* Strings are sequences of one-character strings, so that the byte-level  *)
(* work of shortPath and of the format verbs is computed, not assumed.     *)
(***************************************************************************)
EXTENDS Integers, Sequences, FiniteSets, TLC

VARIABLES
    made,              \* the chain being built: what New/Error/Errorf/Join returned, each
                       \* made from the one before it, in call order
    FileSegments,      \* package variable FileSegments
    FunctionSegments,  \* package variable FunctionSegments
    Format,            \* package variable Format
    obs                \* the last operation and what it returned

vars == <<made, FileSegments, FunctionSegments, Format, obs>>

(***************************************************************************)
(* Bounds of the model.                                                    *)
(***************************************************************************)
\* constructor calls that build one chain, in Spec and SpecFormat
MaxCalls == 2
\* constructor calls that build one chain, in SpecPolicy
MaxWraps == 2
\* arguments of one Join call
MaxJoin == 2
\* length of a path handed to shortPath in SpecShort
MaxPathLen == 5
\* largest segment count handed to shortPath in SpecShort
MaxParts == 6

(***************************************************************************)
(* Strings.                                                                *)
(***************************************************************************)
Slash == "/"

RECURSIVE Concat(_)
\* strings.Join(p, ""): the pieces one after the other
Concat(p) == IF p = <<>> THEN <<>> ELSE Head(p) \o Concat(Tail(p))

\* strings.LastIndexByte(path, '/'): the 0-based index of the last '/', or -1
LastIndexByte(path) ==
    LET at == {i \in 1..Len(path) : path[i] = Slash}
    IN  IF at = {} THEN -1 ELSE (CHOOSE i \in at : \A j \in at : j <= i) - 1

RECURSIVE SplitAfterFrom(_, _)
\* the pieces of path, the one in progress being cur
SplitAfterFrom(path, cur) ==
    IF path = <<>> THEN <<cur>>
    ELSE IF Head(path) = Slash
         THEN <<Append(cur, Slash)>> \o SplitAfterFrom(Tail(path), <<>>)
         ELSE SplitAfterFrom(Tail(path), Append(cur, Head(path)))

\* strings.SplitAfter(path, "/"): path cut after each '/'
SplitAfter(path) == SplitAfterFrom(path, <<>>)

\* path[i+1:] of shortPath's case parts == 1, cut one byte early
shortPath_keepSlash(path, parts) ==
    IF parts = 0 THEN <<>>
    ELSE IF parts = 1 /\ LastIndexByte(path) # -1
         THEN SubSeq(path, LastIndexByte(path) + 1, Len(path))
    ELSE IF parts > 1 /\ Len(SplitAfter(path)) - parts > 0
         THEN LET p == SplitAfter(path)
              IN  Concat(SubSeq(p, Len(p) - parts + 1, Len(p)))
    ELSE path

\* shortPath(path, parts)
shortPath(path, parts) ==
    IF parts = 0 THEN <<>>
    ELSE IF parts = 1 /\ LastIndexByte(path) # -1
         THEN SubSeq(path, LastIndexByte(path) + 2, Len(path))
    ELSE IF parts > 1 /\ Len(SplitAfter(path)) - parts > 0
         THEN LET p == SplitAfter(path)
              IN  Concat(SubSeq(p, Len(p) - parts + 1, Len(p)))
    ELSE path

(***************************************************************************)
(* Package fmt, as far as Error() and Errorf use it: the verbs %s %d %v   *)
(* %w and %%, explicit argument indexes %[n], and the error texts of a     *)
(* bad index, a missing argument, a wrong verb and extra arguments.        *)
(* An argument is [t |-> "string", v |-> chars], [t |-> "int", v |-> n]    *)
(* or [t |-> "error", v |-> the chars of its Error(), e |-> the value].    *)
(***************************************************************************)
Digits == <<"0", "1", "2", "3", "4", "5", "6", "7", "8", "9">>

IsDigit(c) == \E d \in 1..10 : Digits[d] = c

DigitVal(c) == (CHOOSE d \in 1..10 : Digits[d] = c) - 1

RECURSIVE Itoa(_)
\* strconv's decimal form of n >= 0, as %d prints it
Itoa(n) == IF n < 10 THEN <<Digits[n + 1]>> ELSE Append(Itoa(n \div 10), Digits[(n % 10) + 1])

RECURSIVE ParseNum(_, _)
\* fmt.parsenum over the digits s, acc so far; -1 when s holds a non-digit
ParseNum(s, acc) ==
    IF s = <<>> THEN acc
    ELSE IF IsDigit(Head(s)) THEN ParseNum(Tail(s), acc * 10 + DigitVal(Head(s)))
    ELSE -1

\* fmt.parseArgNumber(format[i:]): [index, wid, ok] for the "[n]" at position i
parseArgNumber(format, i) ==
    LET rest  == SubSeq(format, i, Len(format))
        close == {j \in 2..Len(rest) : rest[j] = "]"}
    IN  IF Len(rest) < 3 \/ close = {} THEN [index |-> 0, wid |-> 1, ok |-> FALSE]
        ELSE LET j == CHOOSE c \in close : \A d \in close : c <= d
                 n == IF j = 2 THEN -1 ELSE ParseNum(SubSeq(rest, 2, j - 1), 0)
             IN  IF n = -1 THEN [index |-> 0, wid |-> j, ok |-> FALSE]
                 ELSE [index |-> n - 1, wid |-> j, ok |-> TRUE]

TypeName(arg) ==
    IF arg.t = "int" THEN <<"i", "n", "t">>
    ELSE IF arg.t = "string" THEN <<"s", "t", "r", "i", "n", "g">>
    ELSE <<"e", "r", "r", "o", "r">>

\* the value of an argument under %v
Plain(arg) == IF arg.t = "int" THEN Itoa(arg.v) ELSE arg.v

\* fmt's badVerb: %!verb(type=value)
badVerb(arg, verb) == <<"%", "!", verb, "(">> \o TypeName(arg) \o <<"=">> \o Plain(arg) \o <<")">>

\* (*pp).printArg: one argument under one verb; %w is %v for an error when
\* wrapErrs is set (Errorf), and a bad verb otherwise
printArg(arg, verb, wrapErrs) ==
    IF verb = "w"
    THEN IF arg.t = "error" /\ wrapErrs THEN arg.v ELSE badVerb(arg, verb)
    ELSE IF verb = "v" THEN Plain(arg)
    ELSE IF verb = "s" /\ arg.t # "int" THEN arg.v
    ELSE IF verb = "d" /\ arg.t = "int" THEN Itoa(arg.v)
    ELSE badVerb(arg, verb)

RECURSIVE Extra(_, _)
\* the list "type=value, type=value" of the arguments from argNum on
Extra(a, argNum) ==
    IF argNum >= Len(a) THEN <<>>
    ELSE TypeName(a[argNum + 1]) \o <<"=">> \o Plain(a[argNum + 1])
         \o (IF argNum + 1 < Len(a) THEN <<",", " ">> ELSE <<>>)
         \o Extra(a, argNum + 1)

RECURSIVE doPrintf(_, _, _, _, _, _)
\* (*pp).doPrintf from position i of format (1-based), argNum the next argument
\* (0-based), reordered whether an argument index was seen. Returns
\* [buf |-> the text, wrapped |-> the argument numbers printed by %w].
doPrintf(format, a, i, argNum, reordered, wrapErrs) ==
    IF i > Len(format)
    THEN [buf |-> IF ~reordered /\ argNum < Len(a)
                  THEN <<"%", "!", "(", "E", "X", "T", "R", "A", " ">> \o Extra(a, argNum) \o <<")">>
                  ELSE <<>>,
          wrapped |-> <<>>]
    ELSE IF format[i] # "%"
    THEN LET r == doPrintf(format, a, i + 1, argNum, reordered, wrapErrs)
         IN  [buf |-> <<format[i]>> \o r.buf, wrapped |-> r.wrapped]
    ELSE LET hasIndex == i + 1 <= Len(format) /\ format[i + 1] = "["
             pa       == parseArgNumber(format, i + 1)
             inRange  == pa.ok /\ 0 <= pa.index /\ pa.index < Len(a)
             goodArg  == ~hasIndex \/ inRange
             num      == IF hasIndex /\ inRange THEN pa.index ELSE argNum
             vi       == IF hasIndex THEN i + 1 + pa.wid ELSE i + 1
             reord    == reordered \/ hasIndex
         IN  IF vi > Len(format)
             THEN [buf |-> <<"%", "!", "(", "N", "O", "V", "E", "R", "B", ")">>, wrapped |-> <<>>]
             ELSE LET verb == format[vi]
                      used == verb # "%" /\ goodArg /\ num < Len(a)
                      text == IF verb = "%" THEN <<"%">>
                              ELSE IF ~goodArg
                                   THEN <<"%", "!", verb, "(", "B", "A", "D", "I", "N", "D", "E", "X", ")">>
                              ELSE IF num >= Len(a)
                                   THEN <<"%", "!", verb, "(", "M", "I", "S", "S", "I", "N", "G", ")">>
                              ELSE printArg(a[num + 1], verb, wrapErrs)
                      w    == IF used /\ verb = "w" /\ wrapErrs /\ a[num + 1].t = "error"
                              THEN <<num>> ELSE <<>>
                      r    == doPrintf(format, a, vi + 1, IF used THEN num + 1 ELSE num,
                                       reord, wrapErrs)
                  IN  [buf |-> text \o r.buf, wrapped |-> w \o r.wrapped]

\* fmt.Sprintf(format, a...)
Sprintf(format, a) == doPrintf(format, a, 1, 0, FALSE, FALSE).buf

StrArg(s) == [t |-> "string", v |-> s]

IntArg(n) == [t |-> "int", v |-> n]

(***************************************************************************)
(* Program counters.  A program counter is the index of its frame in       *)
(* Frames; 0 is the empty handle.  The frames of the package and of its    *)
(* test file carry their source lines; File and Function are shortened     *)
(* to a few characters with the shape of the real ones: test file "/l/t",  *)
(* package file "/l/l", functions "g/l.<name>".                            *)
(***************************************************************************)
pcTestErrors == 5
pcTestPC == 6
pcInit == 7
pcNew == 8
pcError == 9
pcErrorf == 10
pcJoin == 11
pcPc == 12
\* program counters the runtime resolves in part or not at all
pcNoFile == 14
pcNoFunction == 15
pcUnknown == 16

TestFile == <<"/", "l", "/", "t">>

PkgFile == <<"/", "l", "/", "l">>

RtFile == <<"/", "r", "/", "p">>

Frames == <<
    [File |-> RtFile,   Line |-> 1700, Function |-> <<"r", ".", "g">>],            \* 1 runtime.goexit
    [File |-> RtFile,   Line |-> 1792, Function |-> <<"t", ".", "R">>],            \* 2 testing.tRunner
    [File |-> RtFile,   Line |-> 283,  Function |-> <<"r", ".", "m">>],            \* 3 runtime.main
    [File |-> RtFile,   Line |-> 7350, Function |-> <<"r", ".", "d">>],            \* 4 runtime.doInit1
    [File |-> TestFile, Line |-> 95,   Function |-> <<"g", "/", "l", ".", "T">>],  \* lazyerrors.TestErrors
    [File |-> TestFile, Line |-> 166,  Function |-> <<"g", "/", "l", ".", "P", ".", "1">>], \* lazyerrors.TestPC.func1
    [File |-> TestFile, Line |-> 175,  Function |-> <<"g", "/", "l", ".", "i">>],  \* lazyerrors.init
    [File |-> PkgFile,  Line |-> 40,   Function |-> <<"g", "/", "l", ".", "N">>],  \* lazyerrors.New
    [File |-> PkgFile,  Line |-> 52,   Function |-> <<"g", "/", "l", ".", "E">>],  \* lazyerrors.Error
    [File |-> PkgFile,  Line |-> 60,   Function |-> <<"g", "/", "l", ".", "F">>],  \* lazyerrors.Errorf
    [File |-> PkgFile,  Line |-> 77,   Function |-> <<"g", "/", "l", ".", "J">>],  \* lazyerrors.Join
    [File |-> PkgFile,  Line |-> 84,   Function |-> <<"g", "/", "l", ".", "p">>],  \* lazyerrors.pc
    [File |-> RtFile,   Line |-> 325,  Function |-> <<"r", ".", "C">>],            \* 13 runtime.Callers
    [File |-> <<>>,     Line |-> 0,    Function |-> <<"c", ".", "f">>],            \* a function without file
    [File |-> RtFile,   Line |-> 9,    Function |-> <<>>]                          \* a file without function
>>

\* The call stacks a constructor is called from, outermost frame first: a test
\* function, a goroutine started by a test, and package initialisation.
CallerStacks == {
    <<1, 2, pcTestErrors>>,
    <<1, pcTestPC>>,
    <<1, 3, 4, pcInit>>
}

\* The call stacks of a degraded capture: none that the runtime can walk
\* above the constructor, and callers whose program counter resolves to no
\* file, to no function, or to nothing.
DegradedStacks == {
    <<>>,
    <<1, pcNoFile>>,
    <<1, pcNoFunction>>,
    <<pcUnknown>>
}

\* the first two of the caller stacks
TestStacks == {
    <<1, 2, pcTestErrors>>,
    <<1, pcTestPC>>
}

\* the frame that called the constructor
CallSite(stack) == IF stack = <<>> THEN 0 ELSE stack[Len(stack)]

\* runtime.Callers(skip, pc) with len(pc) = n on a stack whose innermost frame
\* is Callers itself: the program counters written, innermost first
runtime_Callers(skip, n, stack) ==
    LET avail == Len(stack) - skip
        cnt   == IF avail < 0 THEN 0 ELSE IF avail < n THEN avail ELSE n
    IN  [k \in 1..cnt |-> stack[Len(stack) - skip - k + 1]]

\* pc() with the skip count one too small: the constructor's own frame
lazyerrors_pc_skipsTooFew(stack) ==
    LET written == runtime_Callers(2, 1, stack \o <<pcPc, 13>>)
    IN  IF written = <<>> THEN 0 ELSE written[1]

\* pc() of lazyerrors.go, called by a constructor whose stack (its own frame innermost) is stack
lazyerrors_pc(stack) ==
    LET written == runtime_Callers(3, 1, stack \o <<pcPc, 13>>)
    IN  IF written = <<>> THEN 0 ELSE written[1]

(***************************************************************************)
(* Error values.  A pointer type carries the identity id of its            *)
(* allocation, so that = is Go's ==; lazyerror is a struct compared by     *)
(* its fields.                                                             *)
(***************************************************************************)
Nil == [kind |-> "nil"]

\* errors.New(s): a fresh *errors.errorString
errors_New(s, id) == [kind |-> "errorString", id |-> id, s |-> s]

\* io.EOF, a sentinel allocated at package initialisation
EOF == errors_New(<<"E", "O", "F">>, 0)

RECURSIVE NonNil(_)
NonNil(errs) ==
    IF errs = <<>> THEN <<>>
    ELSE IF Head(errs) = Nil THEN NonNil(Tail(errs))
    ELSE <<Head(errs)>> \o NonNil(Tail(errs))

\* errors.Join(errs...): nil when every element is nil, else a fresh *joinError
\* holding the non-nil elements in order
errors_Join(errs, id) ==
    IF NonNil(errs) = <<>> THEN Nil
    ELSE [kind |-> "joinError", id |-> id, errs |-> NonNil(errs)]

\* lazyerror.Unwrap, returning the cause's cause
lazyerror_Unwrap_skips(le) == IF le.err.kind \in {"lazyerror", "wrapError"} THEN le.err.err ELSE Nil

\* lazyerror.Unwrap
lazyerror_Unwrap(le) == le.err

\* errors.Unwrap(err): the result of err's Unwrap() error method, or nil when
\* it has none (a *joinError has Unwrap() []error only)
errors_Unwrap(err) ==
    IF err.kind = "lazyerror" THEN lazyerror_Unwrap(err)
    ELSE IF err.kind = "wrapError" THEN err.err
    ELSE Nil

\* Unwrap of errors.go
Unwrap(err) == errors_Unwrap(err)

RECURSIVE errors_is(_, _)
\* errors.is(err, target, true): every type of the model is comparable and none
\* has an Is method
errors_is(err, target) ==
    \/ err = target
    \/ /\ err.kind \in {"lazyerror", "wrapError"}
       /\ errors_Unwrap(err) # Nil
       /\ errors_is(errors_Unwrap(err), target)
    \/ /\ err.kind \in {"joinError", "wrapErrors"}
       /\ \E k \in 1..Len(err.errs) : errors_is(err.errs[k], target)

\* errors.Is(err, target)
errors_Is(err, target) ==
    IF err = Nil \/ target = Nil THEN err = target ELSE errors_is(err, target)

\* Is of errors.go, never looking below the first error
Is_shallow(err, target) == err = target

\* Is of errors.go
Is(err, target) == errors_Is(err, target)

(***************************************************************************)
(* The formatting policy and the Error() methods.                          *)
(***************************************************************************)
\* Format's initial value "%s:%d (%s): %s"
DefaultFormat == <<"%", "s", ":", "%", "d", " ", "(", "%", "s", ")", ":", " ", "%", "s">>

\* "%[3]s: %[4]s", the format of the package documentation and of TestFormat
FunctionFormat == <<"%", "[", "3", "]", "s", ":", " ", "%", "[", "4", "]", "s">>

\* "%[1]s:%[2]d: %[4]s", the format of Example
FileLineFormat == <<"%", "[", "1", "]", "s", ":", "%", "[", "2", "]", "d", ":", " ",
                    "%", "[", "4", "]", "s">>

Formats == {DefaultFormat, FunctionFormat, FileLineFormat}

\* the values the segment variables are set to
SegmentValues == -1..2

\* runtime.CallersFrames([]uintptr{pc}).Next(): the zero Frame for a program
\* counter that resolves to nothing
runtime_Frame(pc) ==
    IF pc \in 1..Len(Frames) THEN Frames[pc]
    ELSE [File |-> <<>>, Line |-> 0, Function |-> <<>>]

\* the package variables as a call of Error() reads them
Policy == [FileSegments |-> FileSegments, FunctionSegments |-> FunctionSegments, Format |-> Format]

RECURSIVE ErrorOf(_, _)

\* lazyerror.Error formatting with the initial policy instead of the current one
lazyerror_Error_initialPolicy(le, policy) ==
    IF le.pc = 0 THEN ErrorOf(le.err, policy)
    ELSE LET frame == runtime_Frame(le.pc)
         IN  IF frame.File = <<>> \/ frame.Function = <<>> THEN ErrorOf(le.err, policy)
             ELSE Sprintf(DefaultFormat,
                          <<StrArg(shortPath(frame.File, 1)), IntArg(frame.Line),
                            StrArg(shortPath(frame.Function, 1)),
                            StrArg(ErrorOf(le.err, policy))>>)

\* lazyerror.Error with the file and the function arguments exchanged
lazyerror_Error_swapped(le, policy) ==
    IF le.pc = 0 THEN ErrorOf(le.err, policy)
    ELSE LET frame == runtime_Frame(le.pc)
         IN  IF frame.File = <<>> \/ frame.Function = <<>> THEN ErrorOf(le.err, policy)
             ELSE Sprintf(policy.Format,
                          <<StrArg(shortPath(frame.Function, policy.FunctionSegments)),
                            IntArg(frame.Line),
                            StrArg(shortPath(frame.File, policy.FileSegments)),
                            StrArg(ErrorOf(le.err, policy))>>)

\* lazyerror.Error falling back only when the file and the function are both
\* missing
lazyerror_Error_bothEmpty(le, policy) ==
    IF le.pc = 0 THEN ErrorOf(le.err, policy)
    ELSE LET frame == runtime_Frame(le.pc)
         IN  IF frame.File = <<>> /\ frame.Function = <<>> THEN ErrorOf(le.err, policy)
             ELSE Sprintf(policy.Format,
                          <<StrArg(shortPath(frame.File, policy.FileSegments)),
                            IntArg(frame.Line),
                            StrArg(shortPath(frame.Function, policy.FunctionSegments)),
                            StrArg(ErrorOf(le.err, policy))>>)

\* lazyerror.Error, policy being the package variables as the call reads them
lazyerror_Error(le, policy) ==
    IF le.pc = 0 THEN ErrorOf(le.err, policy)
    ELSE LET frame == runtime_Frame(le.pc)
         IN  IF frame.File = <<>> \/ frame.Function = <<>> THEN ErrorOf(le.err, policy)
             ELSE Sprintf(policy.Format,
                          <<StrArg(shortPath(frame.File, policy.FileSegments)),
                            IntArg(frame.Line),
                            StrArg(shortPath(frame.Function, policy.FunctionSegments)),
                            StrArg(ErrorOf(le.err, policy))>>)

RECURSIVE JoinText(_, _)
\* (*joinError).Error: the messages of errs, one per line
JoinText(errs, policy) ==
    IF Len(errs) = 1 THEN ErrorOf(errs[1], policy)
    ELSE ErrorOf(errs[1], policy) \o <<"\n">> \o JoinText(Tail(errs), policy)

\* err.Error(), by the dynamic type of err
ErrorOf(err, policy) ==
    IF err.kind = "lazyerror" THEN lazyerror_Error(err, policy)
    ELSE IF err.kind = "errorString" THEN err.s
    ELSE IF err.kind = "joinError" THEN JoinText(err.errs, policy)
    ELSE err.msg

\* an error as an argument of a format
ErrArg(err) == [t |-> "error", v |-> ErrorOf(err, Policy), e |-> err]

\* fmt.Errorf(format, a...): the text is formatted now; with one %w the result
\* is a fresh *fmt.wrapError holding the text and the wrapped argument, with
\* none an errors.New of the text.
fmt_Errorf(format, a, id) ==
    LET r == doPrintf(format, a, 1, 0, FALSE, TRUE)
    IN  IF r.wrapped = <<>> THEN errors_New(r.buf, id)
        ELSE IF Len(r.wrapped) = 1
             THEN [kind |-> "wrapError", id |-> id, msg |-> r.buf,
                   err |-> a[r.wrapped[1] + 1].e]
        ELSE [kind |-> "wrapErrors", id |-> id, msg |-> r.buf,
              errs |-> [k \in 1..Len(r.wrapped) |-> a[r.wrapped[k] + 1].e]]

(***************************************************************************)
(* The constructors.  Each returns [panic, ret]; stack is the caller's     *)
(* stack and id the identity of the allocation the call makes.             *)
(***************************************************************************)
\* New(s)
New(s, stack, id) ==
    [panic |-> FALSE,
     ret   |-> [kind |-> "lazyerror", err |-> errors_New(s, id), pc |-> lazyerrors_pc(stack \o <<pcNew>>)]]

\* Error(err) without the nil check
Error_noCheck(err, stack) ==
    [panic |-> FALSE,
     ret   |-> [kind |-> "lazyerror", err |-> err, pc |-> lazyerrors_pc(stack \o <<pcError>>)]]

\* Error(err)
Error(err, stack) ==
    IF err = Nil THEN [panic |-> TRUE, ret |-> Nil]
    ELSE [panic |-> FALSE,
          ret   |-> [kind |-> "lazyerror", err |-> err, pc |-> lazyerrors_pc(stack \o <<pcError>>)]]

\* Errorf(format, a...) holding its first argument itself, as Error does, in
\* place of the error fmt.Errorf returns
Errorf_direct(format, a, stack, id) ==
    [panic |-> FALSE,
     ret   |-> [kind |-> "lazyerror",
                err |-> IF a = <<>> THEN fmt_Errorf(format, a, id) ELSE a[1].e,
                pc |-> lazyerrors_pc(stack \o <<pcErrorf>>)]]

\* Errorf(format, a...)
Errorf(format, a, stack, id) ==
    [panic |-> FALSE,
     ret   |-> [kind |-> "lazyerror", err |-> fmt_Errorf(format, a, id),
                pc |-> lazyerrors_pc(stack \o <<pcErrorf>>)]]

\* Join(errs...) wrapping whatever errors.Join returns
Join_wrapsNil(errs, stack, id) ==
    [panic |-> FALSE,
     ret   |-> [kind |-> "lazyerror", err |-> errors_Join(errs, id),
                pc |-> lazyerrors_pc(stack \o <<pcJoin>>)]]

\* Join(errs...)
Join(errs, stack, id) ==
    LET err == errors_Join(errs, id)
    IN  IF err = Nil THEN [panic |-> FALSE, ret |-> Nil]
        ELSE [panic |-> FALSE,
              ret   |-> [kind |-> "lazyerror", err |-> err, pc |-> lazyerrors_pc(stack \o <<pcJoin>>)]]

(***************************************************************************)
(* The operations of a program that uses the package.  An error starts     *)
(* with a call that is given no earlier result (New, or a constructor      *)
(* applied to io.EOF) and is wrapped again on its way up the return path;  *)
(* made holds the results of these calls.  obs records the last operation  *)
(* with its arguments and its result.                                      *)
(***************************************************************************)
\* the messages New is called with
Messages == {<<"e", "r", "r">>}

\* "x: %w", the format Errorf is called with to wrap an error
WrapFormat == <<"x", ":", " ", "%", "w">>

\* "x", the format Errorf is called with alone
PlainFormat == <<"x">>

\* the last result, when there is one
Last == IF made = <<>> THEN {} ELSE {made[Len(made)]}

\* the errors a constructor is given: the last result, and io.EOF
Held == Last \cup {EOF}

\* the argument lists of a Join call: nil and the held errors, each error at
\* most once
JoinArgs ==
    {errs \in UNION {[1..n -> Held \cup {Nil}] : n \in 0..MaxJoin} :
        \A j, k \in 1..Len(errs) : j # k /\ errs[j] = errs[k] => errs[j] = Nil}

\* whether an argument list holds the last result
UsesLast(args) == \E k \in 1..Len(args) : args[k] \in Last

Init ==
    /\ made = <<>>
    /\ FileSegments = 1
    /\ FunctionSegments = 1
    /\ Format = DefaultFormat
    /\ obs = [op |-> "init"]

\* the argument lists of an Errorf call, each with its format
ErrorfArgs ==
    {[format |-> WrapFormat, a |-> <<err>>] : err \in Held}
        \cup {[format |-> PlainFormat, a |-> <<>>]}

\* a call may start a chain when none is being built, and wrap the last result
\* while the chain is shorter than max
MayCall(args, max) == IF UsesLast(args) THEN Len(made) < max ELSE made = <<>>

\* the identity of the allocation a constructor call makes
NextId == Len(made) + 1

\* what a constructor call leaves: a result that is not nil is held
Returned(op, r, stack, args) ==
    /\ made' = IF r.panic \/ r.ret = Nil THEN made ELSE Append(made, r.ret)
    /\ obs' = [op |-> op, site |-> CallSite(stack), args |-> args,
               panic |-> r.panic, ret |-> r.ret]
    /\ UNCHANGED <<FileSegments, FunctionSegments, Format>>

CallNew(max, stacks) ==
    \E s \in Messages, stack \in stacks :
        /\ MayCall(<<>>, max)
        /\ Returned("New", New(s, stack, NextId), stack, <<>>)

\* Error(nil) panics, at any point of the building of a chain
CallError(max, stacks) ==
    \E err \in Held \cup {Nil}, stack \in stacks :
        /\ IF err = Nil THEN Len(made) < max ELSE MayCall(<<err>>, max)
        /\ Returned("Error", Error(err, stack), stack, <<err>>)

CallErrorf(max, stacks) ==
    \E call \in ErrorfArgs, stack \in stacks :
        /\ MayCall(call.a, max)
        /\ Returned("Errorf",
                    Errorf(call.format, [k \in 1..Len(call.a) |-> ErrArg(call.a[k])],
                           stack, NextId),
                    stack, call.a)

\* Join of nothing but nil returns nil, at any point of the building of a chain
CallJoin(max, stacks) ==
    \E errs \in JoinArgs, stack \in stacks :
        /\ IF NonNil(errs) = <<>> THEN Len(made) < max ELSE MayCall(errs, max)
        /\ Returned("Join", Join(errs, stack, NextId), stack, errs)

\* an assignment to one of the three package variables
Assigned(field) == obs' = [op |-> "set", field |-> field]

SetFileSegments ==
    \E k \in SegmentValues :
        /\ k # FileSegments
        /\ FileSegments' = k
        /\ Assigned("FileSegments")
        /\ UNCHANGED <<made, FunctionSegments, Format>>

SetFunctionSegments ==
    \E k \in SegmentValues :
        /\ k # FunctionSegments
        /\ FunctionSegments' = k
        /\ Assigned("FunctionSegments")
        /\ UNCHANGED <<made, FileSegments, Format>>

SetFormat ==
    \E f \in Formats :
        /\ f # Format
        /\ Format' = f
        /\ Assigned("Format")
        /\ UNCHANGED <<made, FileSegments, FunctionSegments>>

\* made[i].Error()
CallErrorMethod ==
    \E i \in 1..Len(made) :
        /\ obs' = [op |-> "Error()", i |-> i, out |-> lazyerror_Error(made[i], Policy)]
        /\ UNCHANGED <<made, FileSegments, FunctionSegments, Format>>

\* Unwrap of the last result, the first step down its chain
CallUnwrap ==
    \E err \in Last :
        /\ obs' = [op |-> "Unwrap", n |-> 1, ret |-> Unwrap(err)]
        /\ UNCHANGED <<made, FileSegments, FunctionSegments, Format>>

\* Unwrap of what the last Unwrap returned, one more step down
CallUnwrapAgain ==
    /\ obs.op = "Unwrap"
    /\ obs.ret # Nil
    /\ obs' = [obs EXCEPT !.n = obs.n + 1, !.ret = Unwrap(obs.ret)]
    /\ UNCHANGED <<made, FileSegments, FunctionSegments, Format>>

RECURSIVE Chain(_)
\* err and everything one-step Unwrap reaches from it, outermost first
Chain(err) == IF err = Nil THEN <<>> ELSE <<err>> \o Chain(errors_Unwrap(err))

\* Is(err, target) for the last result err and a target of its chain, io.EOF
\* or nil
CallIs ==
    \E err \in Last :
        \E target \in {Chain(err)[k] : k \in 1..Len(Chain(err))} \cup {EOF, Nil} :
            /\ obs' = [op |-> "Is", target |-> target, ret |-> Is(err, target)]
            /\ UNCHANGED <<made, FileSegments, FunctionSegments, Format>>

\* A program that builds an error, walks its chain and renders it, under the
\* initial policy.
Next ==
    \/ CallNew(MaxCalls, CallerStacks)
    \/ CallError(MaxCalls, CallerStacks)
    \/ CallErrorf(MaxCalls, CallerStacks)
    \/ CallJoin(MaxCalls, CallerStacks)
    \/ CallUnwrap
    \/ CallUnwrapAgain
    \/ CallIs
    \/ CallErrorMethod

Spec == Init /\ [][Next]_vars

\* A program that builds an error with New, Error and Errorf, assigns the
\* policy and renders, in any order.
NextPolicy ==
    \/ CallNew(MaxWraps, TestStacks)
    \/ CallError(MaxWraps, TestStacks)
    \/ CallErrorf(MaxWraps, TestStacks)
    \/ SetFileSegments
    \/ SetFunctionSegments
    \/ SetFormat
    \/ CallErrorMethod

SpecPolicy == Init /\ [][NextPolicy]_vars

\* A program that builds a chain with New and Error, assigns the policy and
\* renders, in any order.
NextFormat ==
    \/ CallNew(MaxCalls, TestStacks)
    \/ CallError(MaxCalls, TestStacks)
    \/ SetFileSegments
    \/ SetFunctionSegments
    \/ SetFormat
    \/ CallErrorMethod

SpecFormat == Init /\ [][NextFormat]_vars

\* A program whose calls of New and Error capture no location that resolves,
\* but for those of one test; it assigns the policy and renders, in any order.
NextDegraded ==
    \/ CallNew(MaxCalls, DegradedStacks \cup {<<1, 2, pcTestErrors>>})
    \/ CallError(MaxCalls, DegradedStacks \cup {<<1, 2, pcTestErrors>>})
    \/ SetFileSegments
    \/ SetFunctionSegments
    \/ SetFormat
    \/ CallErrorMethod

SpecDegraded == Init /\ [][NextDegraded]_vars

(***************************************************************************)
(* shortPath alone, on every path over "/", "a", "b" of at most MaxPathLen *)
(* characters and every segment count from -2 to MaxParts.                 *)
(***************************************************************************)
RECURSIVE PathsOfLen(_)
PathsOfLen(n) ==
    IF n = 0 THEN {<<>>}
    ELSE {Append(p, c) : p \in PathsOfLen(n - 1), c \in {Slash, "a", "b"}}

Paths == UNION {PathsOfLen(n) : n \in 0..MaxPathLen}

InitShort ==
    /\ made = <<>>
    /\ FileSegments = 1
    /\ FunctionSegments = 1
    /\ Format = DefaultFormat
    /\ obs \in [op : {"args"}, path : Paths, parts : -2..MaxParts]

CallShortPath ==
    /\ obs.op = "args"
    /\ obs' = [op |-> "shortPath", path |-> obs.path, parts |-> obs.parts,
               ret |-> shortPath(obs.path, obs.parts)]
    /\ UNCHANGED <<made, FileSegments, FunctionSegments, Format>>

NextShort == CallShortPath

SpecShort == InitShort /\ [][NextShort]_vars

(***************************************************************************)
(* Properties.                                                             *)
(***************************************************************************)

\* the number of '/' in p
CountSlash(p) == Cardinality({n \in 1..Len(p) : p[n] = Slash})

\* C7: shortPath(p, k) is p when k < 0 and "" when k = 0; when k >= 1 it is p
\* if p has k pieces or fewer (fewer than k slashes), and otherwise the suffix
\* of p that starts right after a '/' and holds the last k pieces (k - 1
\* slashes): for k = 1, what follows the last '/'.
C7_ShortPath ==
    obs.op = "shortPath" =>
        LET p == obs.path
            k == obs.parts
            r == obs.ret
        IN  /\ k < 0 => r = p
            /\ k = 0 => r = <<>>
            /\ k >= 1 =>
                   IF CountSlash(p) < k THEN r = p
                   ELSE \E n \in 1..Len(p) :
                            /\ p[n] = Slash
                            /\ r = SubSeq(p, n + 1, Len(p))
                            /\ CountSlash(r) = k - 1

\* shortPath has cut a path of three pieces down to its last two
C7_Witness ==
    /\ obs.op = "shortPath"
    /\ obs.parts = 2
    /\ CountSlash(obs.path) = 2
    /\ obs.ret # obs.path
    /\ obs.ret # <<>>

\* whether made[k] is what a call of Error returned, given the result before it
\* (io.EOF for the first call)
ByError(k) ==
    \E stack \in CallerStacks :
        made[k] = Error(IF k = 1 THEN EOF ELSE made[k - 1], stack).ret

\* whether the chain is N >= 1 successive calls of Error around io.EOF
ErrorChain == made # <<>> /\ \A k \in 1..Len(made) : ByError(k)

\* C1: Unwrap of what Error(c) returned is c, for every non-nil c; and on a
\* chain of N calls of Error around the plain error b, i one-step Unwraps of
\* the outermost wrap give the wrap of call N - i when 0 < i < N, b when i = N
\* and nil when i = N + 1.
C1_UnwrapChain ==
    /\ obs.op = "Error" /\ ~obs.panic => Unwrap(obs.ret) = obs.args[1]
    /\ obs.op = "Unwrap" /\ ErrorChain =>
           LET N == Len(made)
               i == obs.n
           IN  obs.ret = IF i < N THEN made[N - i]
                         ELSE IF i = N THEN EOF
                         ELSE Nil

\* a chain of MaxCalls calls of Error around io.EOF has been unwrapped to nil,
\* in MaxCalls + 1 steps
C1_Witness ==
    /\ ErrorChain
    /\ Len(made) = MaxCalls
    /\ obs.op = "Unwrap"
    /\ obs.n = MaxCalls + 1
    /\ obs.ret = Nil

\* C5: Error(nil) panics and returns nothing, and every value New, Error,
\* Errorf and Join have returned is a wrap of a cause that is not nil.
C5_NilCause ==
    /\ obs.op = "Error" /\ obs.args = <<Nil>> => obs.panic /\ obs.ret = Nil
    /\ obs.op \in {"New", "Error", "Errorf", "Join"} /\ ~obs.panic /\ obs.ret # Nil =>
           obs.ret.kind = "lazyerror" /\ obs.ret.err # Nil
    /\ \A k \in 1..Len(made) : made[k].kind = "lazyerror" /\ made[k].err # Nil

\* Error(nil) has panicked in a program that holds a wrap
C5_Witness ==
    /\ obs.op = "Error"
    /\ obs.args = <<Nil>>
    /\ obs.panic
    /\ Len(made) = 1

\* the elements of errs that are not nil, in the order of errs
Kept(errs) ==
    LET I == {k \in 1..Len(errs) : errs[k] # Nil}
    IN  [j \in 1..Cardinality(I) |->
            errs[CHOOSE k \in I : Cardinality({m \in I : m < k}) = j - 1]]

\* C6: Join never panics; it returns nil exactly when every element is nil
\* (none at all included); otherwise it returns one wrap, with the location of
\* the call, whose Unwrap is one aggregate error holding the non-nil elements
\* in their order.
C6_Join ==
    obs.op = "Join" =>
        /\ ~obs.panic
        /\ obs.ret = Nil <=> \A k \in 1..Len(obs.args) : obs.args[k] = Nil
        /\ obs.ret # Nil =>
               /\ obs.ret.kind = "lazyerror"
               /\ obs.ret.pc = obs.site
               /\ Unwrap(obs.ret).kind = "joinError"
               /\ Unwrap(obs.ret).errs = Kept(obs.args)
               /\ Unwrap(Unwrap(obs.ret)) = Nil

\* Join has been given nil and then an earlier wrap
C6_Witness ==
    /\ obs.op = "Join"
    /\ Len(obs.args) = 2
    /\ obs.args[1] = Nil
    /\ Len(made) = 2
    /\ obs.args[2] = made[1]
    /\ obs.ret # Nil

CallSites == {pcTestErrors, pcTestPC, pcInit}

\* the prefix of a wrap made at a call site, under the initial policy: the
\* test file's name, the line and the function's name without its import path
SitePrefix(pc) ==
    CASE pc = pcTestErrors -> <<"t", ":", "9", "5", " ", "(", "l", ".", "T", ")", ":", " ">>
      [] pc = pcTestPC     -> <<"t", ":", "1", "6", "6", " ", "(", "l", ".", "P", ".", "1", ")", ":", " ">>
      [] pc = pcInit       -> <<"t", ":", "1", "7", "5", " ", "(", "l", ".", "i", ")", ":", " ">>
      [] OTHER             -> <<>>

RECURSIVE Lines(_)
\* texts, one per line
Lines(texts) ==
    IF Len(texts) = 1 THEN texts[1]
    ELSE texts[1] \o <<"\n">> \o Lines(Tail(texts))

\* whether the policy is the initial one
DefaultPolicy == FileSegments = 1 /\ FunctionSegments = 1 /\ Format = DefaultFormat

RECURSIVE Expected(_)
\* one prefix for each wrap, outermost first, then the message of the innermost
\* error that is no wrap, with the text an Errorf level adds kept at its level
Expected(err) ==
    IF err.kind = "lazyerror" THEN SitePrefix(err.pc) \o Expected(err.err)
    ELSE IF err.kind = "wrapError" THEN <<"x", ":", " ">> \o Expected(err.err)
    ELSE IF err.kind = "joinError"
         THEN Lines([k \in 1..Len(err.errs) |-> Expected(err.errs[k])])
    ELSE err.s

\* C2: under the initial policy a chain of N wraps renders as N prefixes
\* "<file name>:<line> (<function name>): ", outermost first, each of its own
\* call site, then the innermost message.
C2_DefaultRender ==
    obs.op = "Error()" /\ DefaultPolicy => obs.out = Expected(made[obs.i])

RECURSIVE LazyText(_)
\* the text of err with every level of its chain formatted with the current
\* policy
LazyText(err) ==
    IF err.kind = "lazyerror"
    THEN LET frame == runtime_Frame(err.pc)
         IN  Sprintf(Format, <<StrArg(shortPath(frame.File, FileSegments)), IntArg(frame.Line),
                               StrArg(shortPath(frame.Function, FunctionSegments)),
                               StrArg(LazyText(err.err))>>)
    ELSE IF err.kind = "wrapError" THEN <<"x", ":", " ">> \o LazyText(err.err)
    ELSE IF err.kind = "joinError"
         THEN Lines([k \in 1..Len(err.errs) |-> LazyText(err.errs[k])])
    ELSE err.s

\* C3: what Error() returns depends on the value and on the policy at the time
\* of the call alone: every level of the chain, those made before the policy
\* was assigned included, is formatted with the current policy, and nothing is
\* kept from the construction or from an earlier render.
C3_LazyRender ==
    obs.op = "Error()" => obs.out = LazyText(made[obs.i])

\* the full name of the function of a call site
SiteFunction(pc) ==
    CASE pc = pcTestErrors -> <<"g", "/", "l", ".", "T">>
      [] pc = pcTestPC     -> <<"g", "/", "l", ".", "P", ".", "1">>
      [] pc = pcInit       -> <<"g", "/", "l", ".", "i">>
      [] OTHER             -> <<>>

\* the function's name as FunctionSegments = k shortens it
FunctionText(pc, k) ==
    IF k = 0 THEN <<>>
    ELSE IF k = 1 THEN SubSeq(SiteFunction(pc), 3, Len(SiteFunction(pc)))
    ELSE SiteFunction(pc)

\* C10: with "%[3]s: %[4]s" a single wrap of "err" renders as the shortened
\* function name, ": " and "err", whatever the file, the line and FileSegments:
\* ": err" when FunctionSegments = 0, and the full function name before
\* ": err" when FunctionSegments = -1.
C10_PositionalFormat ==
    obs.op = "Error()" /\ Format = FunctionFormat /\ made[obs.i].err.kind = "errorString" =>
        /\ obs.out = FunctionText(made[obs.i].pc, FunctionSegments) \o <<":", " ">> \o made[obs.i].err.s
        /\ FunctionSegments = 0 /\ made[obs.i].err.s = <<"e", "r", "r">> => obs.out = <<":", " ", "e", "r", "r">>
        /\ FunctionSegments = -1 =>
               obs.out = SiteFunction(made[obs.i].pc) \o <<":", " ">> \o made[obs.i].err.s

\* New("err") is rendered as ": err" with FileSegments = 2
C10_Witness ==
    /\ obs.op = "Error()"
    /\ Format = FunctionFormat
    /\ FunctionSegments = 0
    /\ FileSegments = 2
    /\ made[obs.i].err.kind = "errorString"
    /\ obs.out = <<":", " ", "e", "r", "r">>

\* whether err is a chain of wraps by New and Error alone, down to a plain
\* error
PlainChain(err) == \A k \in 1..Len(Chain(err)) : Chain(err)[k].kind \in {"lazyerror", "errorString"}

\* the package variables after a step
PolicyAfter ==
    [FileSegments |-> FileSegments', FunctionSegments |-> FunctionSegments', Format |-> Format']

FileText(k) ==
    IF k = 0 THEN <<>>
    ELSE IF k = 1 THEN <<"t">>
    ELSE IF k = 2 THEN <<"l", "/", "t">>
    ELSE <<"/", "l", "/", "t">>

\* the line of a call site, in decimal
LineText(pc) ==
    CASE pc = pcTestErrors -> <<"9", "5">>
      [] pc = pcTestPC     -> <<"1", "6", "6">>
      [] pc = pcInit       -> <<"1", "7", "5">>
      [] OTHER             -> <<>>

\* the slots each format prints: 1 file, 2 line, 3 function, 4 message
Printed(f) ==
    CASE f = DefaultFormat  -> {1, 2, 3, 4}
      [] f = FunctionFormat -> {3, 4}
      [] f = FileLineFormat -> {1, 2, 4}

\* what a wrap made at a call site prints before its cause, under a policy
PrefixUnder(pc, policy) ==
    CASE policy.Format = DefaultFormat ->
             FileText(policy.FileSegments) \o <<":">> \o LineText(pc) \o <<" ", "(">>
                 \o FunctionText(pc, policy.FunctionSegments) \o <<")", ":", " ">>
      [] policy.Format = FunctionFormat ->
             FunctionText(pc, policy.FunctionSegments) \o <<":", " ">>
      [] policy.Format = FileLineFormat ->
             FileText(policy.FileSegments) \o <<":">> \o LineText(pc) \o <<":", " ">>

RECURSIVE TextUnder(_, _)
\* what a chain of wraps by New and Error prints under a policy
TextUnder(err, policy) ==
    IF err.kind = "lazyerror" THEN PrefixUnder(err.pc, policy) \o TextUnder(err.err, policy)
    ELSE err.s

\* whether some wrap of err's chain has a function name that k and l shorten
\* differently
FunctionTextDiffers(err, k, l) ==
    \E n \in 1..Len(Chain(err)) :
        /\ Chain(err)[n].kind = "lazyerror"
        /\ FunctionText(Chain(err)[n].pc, k) # FunctionText(Chain(err)[n].pc, l)

ByNewOrErrorf(k) ==
    IF k = 1
    THEN \E m \in Messages, stack \in CallerStacks : made[1] = New(m, stack, 1).ret
    ELSE \E stack \in CallerStacks :
             made[k] = Errorf(WrapFormat, <<ErrArg(made[k - 1])>>, stack, k).ret

\* whether the chain is New and then Errorf with %w around each result
ErrorfChain == made # <<>> /\ \A k \in 1..Len(made) : ByNewOrErrorf(k)

\* C12: Errorf("...%w", c) adds two levels: Unwrap of its result is the
\* formatted error, which is not c, and Unwrap of that is c.  On New and k
\* Errorf calls around it, an odd number of Unwraps never reaches a value New
\* or Errorf returned, 2j Unwraps reach the j-th value below the outermost,
\* 2k + 1 a plain error that is not nil, and 2k + 2 nil.
C12_ErrorfTwoLevels ==
    /\ obs.op = "Errorf" /\ obs.args # <<>> =>
           /\ Unwrap(obs.ret) # obs.args[1]
           /\ Unwrap(obs.ret) # Nil
           /\ Unwrap(Unwrap(obs.ret)) = obs.args[1]
    /\ obs.op = "Unwrap" /\ ErrorfChain =>
           LET N == Len(made)
               i == obs.n
           IN  /\ i % 2 = 1 =>
                      /\ obs.ret # Nil
                      /\ \A k \in 1..N : obs.ret # made[k]
               /\ i % 2 = 0 /\ i < 2 * N => obs.ret = made[N - (i \div 2)]
               /\ i = 2 * N - 1 => obs.ret.kind = "errorString"
               /\ i = 2 * N <=> obs.ret = Nil

\* New and MaxCalls - 1 calls of Errorf with %w have been unwrapped to nil, in
\* 2 * MaxCalls steps
C12_Witness ==
    /\ ErrorfChain
    /\ Len(made) = MaxCalls
    /\ obs.op = "Unwrap"
    /\ obs.n = 2 * MaxCalls
    /\ obs.ret = Nil

\* the program counters of a degraded capture
DegradedPcs == {0, pcNoFile, pcNoFunction, pcUnknown}

RECURSIVE DegradedText(_, _)
\* what a chain of wraps by New and Error prints under a policy when the wraps
\* of a degraded capture add nothing
DegradedText(err, policy) ==
    IF err.kind = "lazyerror"
    THEN IF err.pc \in DegradedPcs THEN DegradedText(err.err, policy)
         ELSE PrefixUnder(err.pc, policy) \o DegradedText(err.err, policy)
    ELSE err.s

====
